---- MODULE Spec2Model ----
(***************************************************************************)
(* State-machine model of src/curve_fit_tutorial.py: the script that       *)
(* cleans monthly well production data, anchors every well at its online   *)
(* date, estimates the initial rate qi and fits an exponential and a       *)
(* hyperbolic decline curve per well with scipy.optimize.curve_fit.        *)
(*                                                                         *)
(* Encoding of values                                                      *)
(*  - a float cell is a record [isnull, val]: NaN is isnull = TRUE, so     *)
(*    that comparisons with NaN are FALSE as in pandas/numpy;              *)
(*  - a timestamp is an integer count of half-days since 2016-01-01 00:00  *)
(*    (2*day + half), so that the .dt.days conversion is a real floor;     *)
(*  - a data frame is a sequence of row records in row order;              *)
(*  - the numbers in a vector returned by curve_fit are decided inside     *)
(*    scipy, whose code is not part of the repository: the model keeps     *)
(*    only that a vector of that many floats was returned.                 *)
(***************************************************************************)
EXTENDS Integers, Sequences, FiniteSets

VARIABLES raw_data, bakken_data, bakken_data_2016, i, production_time_series,
          qi, popt_exp, popt_hyp, printed, plotted, raised, pc

vars == <<raw_data, bakken_data, bakken_data_2016, i, production_time_series,
          qi, popt_exp, popt_hyp, printed, plotted, raised, pc>>

(* ------------------------------ bounds -------------------------------- *)

\* Largest number of freely chosen rows of the csv read by main.
MaxRows == 2

\* Largest number of rows of one well's series in the estimator specification.
MaxSeries == 4

(* ------------------------------ values -------------------------------- *)

NaN == [isnull |-> TRUE, val |-> 0]

Num(v) == [isnull |-> FALSE, val |-> v]

\* pandas Series.notnull on one cell.
notnull(x) == ~x.isnull

\* pandas "column > c" on one cell: FALSE for NaN.
gt(x, c) == ~x.isnull /\ x.val > c

\* Timestamp of a day (days since 2016-01-01) and a half-day offset.
Timestamp(day, half) == 2 * day + half

\* ReportDate values of the csv: 2015-12-31 12:00, 2016-01-15, 2016-02-14.
ReportDates == {Timestamp(-1, 1), Timestamp(14, 0), Timestamp(44, 0)}

\* Oil values of the csv: missing, negative, zero and positive.
OilValues == {NaN, Num(-1), Num(0), Num(1), Num(2)}

\* The five hardcoded wells of main, in list order; 1..5 stand for
\* 33023013930000.0, 33105039980000.0, 33105039970000.0, 33013018230000.0
\* and 33013018220000.0.
unique_well_APIs_list == <<1, 2, 3, 4, 5>>

\* The wells of the freely chosen rows of the csv: the first two of the list.
DataWells == {unique_well_APIs_list[1], unique_well_APIs_list[2]}

RawRow == [api : DataWells, date : ReportDates, rate : OilValues]

\* One row of 2016-01-15 with Oil 1 for each of the other listed wells.
OtherWellRows ==
    [k \in 1..(Len(unique_well_APIs_list) - 2) |->
        [api |-> unique_well_APIs_list[k + 2], date |-> Timestamp(14, 0),
         rate |-> Num(1)]]

SeqsUpTo(S, n) == UNION {[1..m -> S] : m \in 0..n}

\* The csv files read: up to MaxRows rows of the first two wells, alone or
\* followed by the rows of the other wells.
CsvInputs ==
    {rows \o rest : rows \in SeqsUpTo(RawRow, MaxRows),
                    rest \in {<<>>, OtherWellRows}}

SetMin(S) == CHOOSE x \in S : \A y \in S : x <= y

SetMax(S) == CHOOSE x \in S : \A y \in S : x >= y

(* --------------------------- preprocessing ---------------------------- *)

\* Faulty variant of KeepRow: the comparison is >= instead of >.
KeepRowNonNegative(r) == notnull(r.rate) /\ r.rate.val >= 0

KeepRow(r) == notnull(r.rate) /\ gt(r.rate, 0)

\* df[(df[variable].notnull()) & (df[variable]>0)]
remove_nan_and_zeroes_from_columns(df) == SelectSeq(df, KeepRow)

\* The aggregation of calc_type over a set of column values.
Aggregate(S, calc_type) == IF calc_type = "min" THEN SetMin(S) ELSE SetMax(S)

\* dataframe.groupby('API_WELLNO')['ReportDate'].transform(calc_type):
\* one value per row, aligned with the rows.
get_min_or_max_value_in_column_by_group(dataframe, calc_type) ==
    [k \in 1..Len(dataframe) |->
        Aggregate({dataframe[j].date :
                     j \in {j \in 1..Len(dataframe) :
                              dataframe[j].api = dataframe[k].api}},
                  calc_type)]

\* Faulty variant of OnlineCalcType: the latest date instead of the earliest.
OnlineCalcTypeMax == "max"

\* The calc_type main passes for Online_Date.
OnlineCalcType == "min"

\* bakken_data['Online_Date'] = ...: the frame with the new column.
WithOnlineDate(df) ==
    LET col == get_min_or_max_value_in_column_by_group(df, OnlineCalcType)
    IN  [k \in 1..Len(df) |->
            [api |-> df[k].api, date |-> df[k].date, rate |-> df[k].rate,
             online |-> col[k]]]

\* Timedelta.days: whole days, rounded down (a day is two half-days).
TimedeltaDays(delta) == delta \div 2

\* (df[time_column]-df[date_first_online_column]).dt.days
generate_time_delta_column(df) ==
    [k \in 1..Len(df) |-> TimedeltaDays(df[k].date - df[k].online)]

\* bakken_data['Days_Online'] = ...: the frame with the new column.
WithDaysOnline(df) ==
    LET col == generate_time_delta_column(df)
    IN  [k \in 1..Len(df) |->
            [api |-> df[k].api, date |-> df[k].date, rate |-> df[k].rate,
             online |-> df[k].online, days |-> col[k]]]

\* '2016-01-01' and '2016-06-01' as days since 2016-01-01.
WindowFirstDay == 0

WindowLastDay == 152

InWindow(r) == /\ r.online >= Timestamp(WindowFirstDay, 0)
               /\ r.online <= Timestamp(WindowLastDay, 0)

\* bakken_data[(Online_Date>='2016-01-01') & (Online_Date<='2016-06-01')]
SelectWindow(df) == SelectSeq(df, InWindow)

\* Faulty variant of SubsetByAPI: the rows are not restricted to the well.
SubsetByAPI_every_well(df, api_number) == df

\* bakken_data_2016[bakken_data_2016.API_WELLNO==api_number]
SubsetByAPI(df, api_number) ==
    LET same(r) == r.api = api_number IN SelectSeq(df, same)

(* ------------------------ initial-rate estimate ----------------------- *)

\* df.sort_values(by=date_column): every reordering of the rows that is
\* ascending in the date (the default sort is not stable, so rows of equal
\* date may come out in any order).
sort_values(df) ==
    LET n == Len(df)
        perms == {p \in [1..n -> 1..n] : \A a, b \in 1..n : a # b => p[a] # p[b]}
        asc(p) == \A a, b \in 1..n : a < b => df[p[a]].date <= df[p[b]].date
    IN  {[k \in 1..n |-> df[p[k]]] : p \in {q \in perms : asc(q)}}

\* Faulty variant of head: the window is not applied.
head_whole_frame(df, n) == df

\* df.head(n)
head(df, n) == IF Len(df) <= n THEN df ELSE SubSeq(df, 1, n)

\* Series.max(): NaN on an empty series (the rates here are never NaN).
series_max(df) ==
    IF Len(df) = 0 THEN NaN
    ELSE Num(SetMax({df[k].rate.val : k \in 1..Len(df)}))

\* The values get_max_initial_production can return for df.
get_max_initial_production(df, number_first_months) ==
    {series_max(head(s, number_first_months)) : s \in sort_values(df)}

\* The number_first_months main passes.
NumberFirstMonths == 3

(* ------------------------------ curve_fit ----------------------------- *)

\* bounds=(0, ...): the scalar lower bound, broadcast to every parameter.
LowerBound == 0

\* Upper bound of the decline rate di, and of the hyperbolic exponent b.
DiUpper == 20

BUpper == 2

\* bounds=(0, [qi,20]) of the exponential fit.
exp_bounds(q) == [lb |-> <<LowerBound, LowerBound>>, ub |-> <<q, Num(DiUpper)>>]

\* bounds=(0, [qi,2,20]) of the hyperbolic fit.
hyp_bounds(q) == [lb |-> <<LowerBound, LowerBound, LowerBound>>,
                  ub |-> <<q, Num(BUpper), Num(DiUpper)>>]

\* A vector of n floats returned by the library; their values are not
\* modelled.
FittedVector(n) == [k \in 1..n |-> "float"]

\* Outcomes of the call curve_fit(f, xdata, ydata, bounds=b) as main can
\* observe them: ValueError on empty data, on a NaN bound and on a bound
\* pair that is not lb < ub; otherwise either RuntimeError (the
\* least-squares minimisation fails) or a vector with one float per bound.
curve_fit(ydata, b) ==
    IF Len(ydata) = 0 \/ \E k \in 1..Len(b.ub) : b.ub[k].isnull
    THEN {[kind |-> "ValueError", popt |-> <<>>]}
    ELSE IF \E k \in 1..Len(b.ub) : b.lb[k] >= b.ub[k].val
    THEN {[kind |-> "ValueError", popt |-> <<>>]}
    ELSE {[kind |-> "RuntimeError", popt |-> <<>>],
          [kind |-> "ok", popt |-> FittedVector(Len(b.ub))]}

(* -------------------------------- main -------------------------------- *)

\* State after read_in_csv and pd.to_datetime (lines 130-134).
Init ==
    /\ raw_data \in CsvInputs
    /\ bakken_data = raw_data
    /\ bakken_data_2016 = <<>>
    /\ i = 1
    /\ production_time_series = <<>>
    /\ qi = NaN
    /\ popt_exp = <<>>
    /\ popt_hyp = <<>>
    /\ printed = <<>>
    /\ plotted = <<>>
    /\ raised = <<>>
    /\ pc = "filter"

\* Line 136.
Filter ==
    /\ pc = "filter"
    /\ bakken_data' = remove_nan_and_zeroes_from_columns(bakken_data)
    /\ pc' = "online"
    /\ UNCHANGED <<raw_data, bakken_data_2016, i, production_time_series, qi,
                   popt_exp, popt_hyp, printed, plotted, raised>>

\* Lines 138-139.
OnlineDate ==
    /\ pc = "online"
    /\ bakken_data' = WithOnlineDate(bakken_data)
    /\ pc' = "days"
    /\ UNCHANGED <<raw_data, bakken_data_2016, i, production_time_series, qi,
                   popt_exp, popt_hyp, printed, plotted, raised>>

\* Lines 141-142.
DaysOnline ==
    /\ pc = "days"
    /\ bakken_data' = WithDaysOnline(bakken_data)
    /\ pc' = "window"
    /\ UNCHANGED <<raw_data, bakken_data_2016, i, production_time_series, qi,
                   popt_exp, popt_hyp, printed, plotted, raised>>

\* Line 144.
Window ==
    /\ pc = "window"
    /\ bakken_data_2016' = SelectWindow(bakken_data)
    /\ pc' = "loop"
    /\ UNCHANGED <<raw_data, bakken_data, i, production_time_series, qi,
                   popt_exp, popt_hyp, printed, plotted, raised>>

\* Lines 149-151: the next well of the list, or the end of the loop.
Subset ==
    /\ pc = "loop"
    /\ i <= Len(unique_well_APIs_list)
    /\ production_time_series' =
           SubsetByAPI(bakken_data_2016, unique_well_APIs_list[i])
    /\ pc' = "qi"
    /\ UNCHANGED <<raw_data, bakken_data, bakken_data_2016, i, qi,
                   popt_exp, popt_hyp, printed, plotted, raised>>

LoopEnd ==
    /\ pc = "loop"
    /\ i > Len(unique_well_APIs_list)
    /\ pc' = "done"
    /\ UNCHANGED <<raw_data, bakken_data, bakken_data_2016, i,
                   production_time_series, qi, popt_exp, popt_hyp, printed,
                   plotted, raised>>

\* Line 153.
GetQi ==
    /\ pc = "qi"
    /\ qi' \in get_max_initial_production(production_time_series,
                                          NumberFirstMonths)
    /\ pc' = "fit_exp"
    /\ UNCHANGED <<raw_data, bakken_data, bakken_data_2016, i,
                   production_time_series, popt_exp, popt_hyp, printed,
                   plotted, raised>>

\* Lines 155-157: an exception of curve_fit is not caught and ends main.
FitExp ==
    /\ pc = "fit_exp"
    /\ \E r \in curve_fit(production_time_series, exp_bounds(qi)) :
         \/ /\ r.kind = "ok"
            /\ popt_exp' = r.popt
            /\ printed' = Append(printed, <<unique_well_APIs_list[i], "exp">>)
            /\ pc' = "fit_hyp"
            /\ UNCHANGED raised
         \/ /\ r.kind # "ok"
            /\ raised' = <<r.kind, "exp">>
            /\ pc' = "crashed"
            /\ UNCHANGED <<popt_exp, printed>>
    /\ UNCHANGED <<raw_data, bakken_data, bakken_data_2016, i,
                   production_time_series, qi, popt_hyp, plotted>>

\* Lines 159-161.
FitHyp ==
    /\ pc = "fit_hyp"
    /\ \E r \in curve_fit(production_time_series, hyp_bounds(qi)) :
         \/ /\ r.kind = "ok"
            /\ popt_hyp' = r.popt
            /\ printed' = Append(printed, <<unique_well_APIs_list[i], "hyp">>)
            /\ pc' = "plot"
            /\ UNCHANGED raised
         \/ /\ r.kind # "ok"
            /\ raised' = <<r.kind, "hyp">>
            /\ pc' = "crashed"
            /\ UNCHANGED <<popt_hyp, printed>>
    /\ UNCHANGED <<raw_data, bakken_data, bakken_data_2016, i,
                   production_time_series, qi, popt_exp, plotted>>

\* Lines 163-174: the predicted columns and the plot, then the next well.
Plot ==
    /\ pc = "plot"
    /\ plotted' = Append(plotted, unique_well_APIs_list[i])
    /\ i' = i + 1
    /\ pc' = "loop"
    /\ UNCHANGED <<raw_data, bakken_data, bakken_data_2016,
                   production_time_series, qi, popt_exp, popt_hyp, printed,
                   raised>>

Next ==
    \/ Filter
    \/ OnlineDate
    \/ DaysOnline
    \/ Window
    \/ Subset
    \/ LoopEnd
    \/ GetQi
    \/ FitExp
    \/ FitHyp
    \/ Plot

Spec == Init /\ [][Next]_vars

(* ----------------------- estimator specification ---------------------- *)

\* One well's series, as main hands it to get_max_initial_production: rows
\* of well 1 with positive rates and in-window dates, anchored by the same
\* steps as in main.
SeriesDates == {Timestamp(14, 0), Timestamp(44, 0)}

SeriesRates == {Num(1), Num(2), Num(3)}

SeriesRow == [api : {unique_well_APIs_list[1]}, date : SeriesDates,
              rate : SeriesRates]

InitQi ==
    /\ raw_data \in SeqsUpTo(SeriesRow, MaxSeries)
    /\ bakken_data =
         WithDaysOnline(WithOnlineDate(
             remove_nan_and_zeroes_from_columns(raw_data)))
    /\ bakken_data_2016 = SelectWindow(bakken_data)
    /\ i = 1
    /\ production_time_series =
         SubsetByAPI(bakken_data_2016, unique_well_APIs_list[1])
    /\ qi = NaN
    /\ popt_exp = <<>>
    /\ popt_hyp = <<>>
    /\ printed = <<>>
    /\ plotted = <<>>
    /\ raised = <<>>
    /\ pc = "qi"

NextQi == GetQi

SpecQi == InitQi /\ [][NextQi]_vars

(* ------------------------------- claims ------------------------------- *)

\* The well the loop is at.
CurrentAPI == unique_well_APIs_list[i]

\* Indices of the rows of the csv with a non-null, strictly positive rate.
PositiveIdx ==
    {k \in 1..Len(raw_data) :
        raw_data[k].rate # NaN /\ raw_data[k].rate.val > 0}

\* The j-th smallest element of PositiveIdx.
NthPositive(j) ==
    CHOOSE k \in PositiveIdx : Cardinality({x \in PositiveIdx : x < k}) = j - 1

SameObservation(r, o) == r.api = o.api /\ r.date = o.date /\ r.rate = o.rate

FilterExact ==
    pc # "filter" =>
        /\ Len(bakken_data) = Cardinality(PositiveIdx)
        /\ \A j \in 1..Len(bakken_data) :
              SameObservation(bakken_data[j], raw_data[NthPositive(j)])

\* C3: the record filter keeps exactly the rows of the input whose rate is
\* non-null and strictly positive, in their original order, and the frame
\* that was read is never changed.
C3_FilterKeepsExactlyPositiveRows ==
    [] FilterExact /\ [][raw_data' = raw_data]_vars

\* C3 witness: a negative-rate row was dropped and a later row was kept.
C3_Witness ==
    /\ pc = "online"
    /\ Len(raw_data) = 2
    /\ raw_data[1].rate = Num(-1)
    /\ Len(bakken_data) = 1
    /\ bakken_data[1] = raw_data[2]

\* Dates of the rows of the csv that pass the filter and belong to api.
RetainedDates(api) == {raw_data[k].date : k \in {x \in PositiveIdx : raw_data[x].api = api}}

\* C4: after anchoring, every row carries the earliest date of the filtered
\* rows of its well as online date and the whole days since then as elapsed
\* time, which is never negative and is 0 for some row of every well.
C4_AnchoredAtEarliestDate ==
    pc \notin {"filter", "online", "days"} =>
        \A k \in 1..Len(bakken_data) :
            LET r == bakken_data[k] IN
            /\ r.online \in RetainedDates(r.api)
            /\ \A d \in RetainedDates(r.api) : r.online <= d
            /\ 2 * r.days <= r.date - r.online
            /\ r.date - r.online < 2 * r.days + 2
            /\ r.days >= 0
            /\ \E j \in 1..Len(bakken_data) :
                  bakken_data[j].api = r.api /\ bakken_data[j].days = 0

\* C4 witness: earliest record 2016-01-15, later record 2016-02-14: 30 days.
C4_Witness ==
    /\ pc = "window"
    /\ \E k \in 1..Len(bakken_data) :
          /\ bakken_data[k].online = Timestamp(14, 0)
          /\ bakken_data[k].date = Timestamp(44, 0)
          /\ bakken_data[k].days = 30

\* C6: the initial-rate estimate is the largest rate among the N rows of
\* the series with the smallest elapsed time (all rows when there are fewer
\* than N); rows after the first N do not count.
C6_QiIsMaxOfEarliestRows ==
    (pc = "fit_exp" /\ Len(production_time_series) > 0) =>
        LET s == production_time_series
            n == Len(s)
            m == IF n < NumberFirstMonths THEN n ELSE NumberFirstMonths
        IN  \E S \in SUBSET (1..n) :
              /\ Cardinality(S) = m
              /\ \A a \in S : \A b \in (1..n) \ S : s[a].days <= s[b].days
              /\ \A a \in S : s[a].rate.val <= qi.val
              /\ \E a \in S : s[a].rate = qi

\* C6 witness: a row after the first N has a higher rate than the estimate.
C6_Witness ==
    /\ pc = "fit_exp"
    /\ Len(production_time_series) > NumberFirstMonths
    /\ \E k \in 1..Len(production_time_series) :
          production_time_series[k].rate.val > qi.val

PairHasResult(k, v) ==
    \E j \in 1..Len(printed) : printed[j] = <<unique_well_APIs_list[k], v>>

PairHasFailure(k, v) == raised # <<>> /\ i = k /\ raised[2] = v

\* C2: when the loop over the wells is over, every (well, variant) pair of
\* the list has a fit result or a recorded failure.
C2_EveryPairSettled ==
    pc \in {"done", "crashed"} =>
        \A k \in 1..Len(unique_well_APIs_list) : \A v \in {"exp", "hyp"} :
            PairHasResult(k, v) \/ PairHasFailure(k, v)

ParameterCount(v) == IF v = "exp" THEN 2 ELSE 3

DistinctElapsedTimes ==
    Cardinality({production_time_series[k].days :
                   k \in 1..Len(production_time_series)})

\* C5: a fit of a series with fewer distinct elapsed times than the variant
\* has parameters returns no parameter vector and does not end the batch.
C5_InsufficientDataSkipped ==
    /\ pc = "fit_hyp" => DistinctElapsedTimes >= ParameterCount("exp")
    /\ pc = "plot" => DistinctElapsedTimes >= ParameterCount("hyp")
    /\ pc = "crashed" => DistinctElapsedTimes >= ParameterCount(raised[2])

\* C7: the box handed to the hyperbolic fit excludes b = 0, so that no
\* parameter vector the solver may try has b = 0.
C7_HyperbolicBoxExcludesBZero ==
    pc = "fit_hyp" => hyp_bounds(qi).lb[2] > 0

\* C8: a fit that ends without convergence is reported for its pair and the
\* batch goes on with the remaining fits.
C8_ConvergenceErrorBatchContinues ==
    (raised # <<>> /\ raised[1] = "RuntimeError") => pc # "crashed"

====
